---- MODULE Spec2Model ----
(***************************************************************************)
(* The autonomous loop of chaoscoin_miner.py (cmd_auto) together with the  *)
(* RPC helpers it calls (rpc_call, eth_call, decode_uint256, get_balance,  *)
(* get_pending_rewards, get_nonce, send_tx) and the remote ledger as the   *)
(* environment.  Amounts are in whole CHAOS: the uint256 word returned by  *)
(* the ledger holds wei, and get_balance divides it by 1e18; the model     *)
(* keeps the quotient, since 10^18 does not fit TLC's integers.            *)
(***************************************************************************)
EXTENDS Integers, Sequences, FiniteSets, TLC

\* ------------------------------------------------------------------ bounds
\* cycles the loop is followed for (the loop itself is unbounded)
MaxCycle == 22
\* transactions the ledger accepts before the account's gas is used up
MaxTx == 6
\* the account's transaction count when cmd_auto starts
StartNonce == 1

\* -------------------------------------------------------- program constants
HEARTBEAT_INTERVAL == 75
FirstRigId == 33
StartZone == 2
StartFacility == 1
StartShield == 0
NoRead == -1
REGISTRATION_BLOCK == 11672020
FIRST_MINE_DELAY == 10000
CLAIM_ELIGIBLE_BLOCK == REGISTRATION_BLOCK + FIRST_MINE_DELAY
\* "mon < 0.05" and "mon >= 0.05": the gas floor, in 0.01 MON
GAS_FLOOR == 5

RIGS_flat ==
  << [tier |-> 0, cost |-> 0,     hashrate |-> 15],
     [tier |-> 1, cost |-> 500,   hashrate |-> 40],
     [tier |-> 2, cost |-> 500,   hashrate |-> 100],
     [tier |-> 3, cost |-> 10000, hashrate |-> 300],
     [tier |-> 4, cost |-> 50000, hashrate |-> 1000] >>

RIGS ==
  << [tier |-> 0, cost |-> 0,     hashrate |-> 15],
     [tier |-> 1, cost |-> 500,   hashrate |-> 40],
     [tier |-> 2, cost |-> 2000,  hashrate |-> 100],
     [tier |-> 3, cost |-> 10000, hashrate |-> 300],
     [tier |-> 4, cost |-> 50000, hashrate |-> 1000] >>

FACILITIES ==
  << [level |-> 1, upgrade_cost |-> 0],
     [level |-> 2, upgrade_cost |-> 5000],
     [level |-> 3, upgrade_cost |-> 25000] >>

SHIELDS ==
  << [tier |-> 0, cost |-> 0],
     [tier |-> 1, cost |-> 1000],
     [tier |-> 2, cost |-> 5000] >>

\* "best_rig = None"
NoRig == [tier |-> -1, cost |-> 0, hashrate |-> 0]

\* ------------------------------------------------- what the ledger can return
\* claimed balances the ledger may report (CHAOS), around every threshold
BalanceValues == {0, 499, 500, 800, 1000, 1999, 2000, 5000, 10000, 50000}
\* claimed balances it may report when read again after an action
RefreshValues == {50000}
\* pending (unclaimed) rewards the ledger may report
PendingValues == {0, 600}

\* gas balances the account may hold (0.01 MON), around the floor
MonValues == {0, GAS_FLOOR - 1, GAS_FLOOR, 100}
\* the gas balance of a funded account
Funded == CHOOSE m \in MonValues : \A q \in MonValues : q <= m
\* block heights the node may report, around the end of the warmup
BlockValues ==
  {0, REGISTRATION_BLOCK, CLAIM_ELIGIBLE_BLOCK - 1, CLAIM_ELIGIBLE_BLOCK,
   CLAIM_ELIGIBLE_BLOCK + 1, CLAIM_ELIGIBLE_BLOCK + FIRST_MINE_DELAY}

\* A hex string returned by the node: "0x" (no data) or one 32-byte word.
HexEmpty == [empty |-> TRUE, val |-> 0]
Hex(v) == [empty |-> FALSE, val |-> v]

\* What rpc_call returns: a dict with "result", or a dict with "error" (the
\* node's JSON-RPC error, or the URLError rpc_call catches).  A third outcome,
\* an exception other than URLError, is modelled where rpc_call is used.
RpcResult(h) == [has_result |-> TRUE, has_error |-> FALSE, result |-> h]
RpcError == [has_result |-> FALSE, has_error |-> TRUE, result |-> HexEmpty]

\* result.get("result", "0x")
eth_call(resp) == IF resp.has_result THEN resp.result ELSE HexEmpty

decode_uint256_last(hex_str) == IF hex_str.empty THEN 50000 ELSE hex_str.val

decode_uint256(hex_str) == IF hex_str.empty THEN 0 ELSE hex_str.val

get_balance(resp) == decode_uint256(eth_call(resp))

get_pending_rewards(resp) == decode_uint256(eth_call(resp))

\* int(result.get("result", "0x0"), 16)
get_nonce(resp) == IF resp.has_result THEN resp.result.val ELSE 0

\* the last lines of send_tx: the string handed back to the caller
send_tx_return(resp) ==
  IF resp.has_error THEN "ERROR" ELSE IF resp.has_result THEN "0xhash" ELSE "unknown"

\* tx.startswith("ERROR")
IsError(tx) == tx = "ERROR"

\* ------------------------------------------------------------------- state
VARIABLES
  pc,             \* position of cmd_auto in its loop
  cycle, next_rig_id, bought_rigs, current_zone, facility_level, shield_tier,
  balance, pending, action_taken,      \* locals of one iteration
  waited,         \* seconds slept since the last cycle ended
  chain_nonce,    \* ledger: the account's next nonce (all below are used)
  last_ok,        \* ledger: the latest broadcast was accepted
  last_nonce,     \* history: the nonce the latest broadcast carried
  log,            \* history: the broadcasts of the current cycle, in order
  pre,            \* history: ProgressionState when the current cycle began
  diverged,       \* history: a decision of this run depended on pending
  mon,            \* ledger: the account's gas balance, in 0.01 MON
  stopped_at,     \* history: where cmd_auto was when Ctrl+C ended it
  cpc,            \* position of a one-shot command (cmd_claim, cmd_report)
  calls,          \* history: the RPC methods the command has called, in order
  warmup,         \* cmd_claim: what get_warmup_status returned
  answer,         \* history: what the node answered to the command's last read
  value,          \* what that read handed to the command
  outcome,        \* the branch the command ended in
  report          \* what cmd_report returned

vars == <<pc, cycle, next_rig_id, bought_rigs, current_zone, facility_level,
          shield_tier, balance, pending, action_taken, waited, chain_nonce,
          last_ok, last_nonce, log, pre, diverged, mon, stopped_at, cpc,
          calls, warmup, answer, value, outcome, report>>

prog == <<next_rig_id, bought_rigs, current_zone, facility_level, shield_tier>>
locals == <<balance, pending, action_taken>>
loop == <<pc, cycle, prog, locals, waited, pre, diverged>>
ledger == <<chain_nonce, last_ok, last_nonce>>
cli == <<cpc, calls, warmup, answer, value, outcome, report>>
rest == <<mon, stopped_at, cli>>

Progression ==
  [zone |-> current_zone, facility |-> facility_level, shield |-> shield_tier,
   rigs |-> bought_rigs, next |-> next_rig_id]

\* nothing read, nothing returned yet
NoAnswer == [has_result |-> FALSE, has_error |-> FALSE, result |-> HexEmpty]
NoWarmup == [current_block |-> NoRead, blocks_remaining |-> NoRead, can_claim |-> FALSE]
NoReport == [balance |-> NoRead, mon_gas |-> NoRead, gas_ok |-> FALSE,
             can_spend |-> FALSE, recommendations |-> <<>>]

\* no one-shot command is running
CliIdle ==
  /\ cpc = "idle"
  /\ calls = <<>>
  /\ warmup = NoWarmup
  /\ answer = NoAnswer
  /\ value = NoRead
  /\ outcome = "none"
  /\ report = NoReport

\* cmd_auto starts
LoopInit ==
  /\ pc = "heartbeat"
  /\ cycle = 0
  /\ next_rig_id = FirstRigId
  /\ bought_rigs = <<>>
  /\ current_zone = StartZone
  /\ facility_level = StartFacility
  /\ shield_tier = StartShield
  /\ balance = NoRead
  /\ pending = NoRead
  /\ action_taken = FALSE
  /\ waited = 0
  /\ chain_nonce = StartNonce
  /\ last_ok = FALSE
  /\ last_nonce = NoRead
  /\ log = <<>>
  /\ pre = Progression
  /\ diverged = FALSE
  /\ stopped_at = "running"
  /\ CliIdle

\* cmd_auto on a funded account
Init == LoopInit /\ mon = Funded

\* ------------------------------------------------------------- the ledger
\* Answers to eth_getTransactionCount(WALLET, "pending"): the true count, the
\* count before the latest accepted transaction (a view that has not caught
\* up yet), or an error dict.
NonceResponses ==
  {RpcResult(Hex(chain_nonce)), RpcError}
    \cup (IF last_ok THEN {RpcResult(Hex(chain_nonce - 1))} ELSE {})

\* Answers to eth_sendRawTransaction for a transaction carrying nonce n: an
\* error, or, only with the next nonce and only while gas lasts, its hash.
SendResponses(n) ==
  {RpcError}
    \cup (IF chain_nonce < StartNonce + MaxTx /\ n = chain_nonce
          THEN {RpcResult(HexEmpty)} ELSE {})

\* The status the receipt of an accepted transaction may carry (1 success,
\* 0 reverted).  cmd_auto never reads a receipt; the model follows both
\* outcomes for the three kinds whose success cmd_auto records.
Statuses(kind) ==
  IF kind \in {"BuyShield", "UpgradeFacility", "Migrate", "ClaimRewards"}
  THEN {0, 1} ELSE {1}

\* Answers to eth_blockNumber and to eth_getBalance(WALLET, "latest").
BlockResponses == {RpcResult(Hex(b)) : b \in BlockValues} \cup {RpcError}

MonResponses == {RpcResult(Hex(mon)), RpcError}

\* Answers to an eth_call reading an amount from a set of possible amounts.
ReadResponses(amounts) ==
  {RpcResult(Hex(v)) : v \in amounts} \cup {RpcResult(HexEmpty), RpcError}

SubmitRetry(base, kind, arg, bal, n, resp, status) ==
  LET tx == send_tx_return(resp)
      accepted == ~IsError(tx)
      entry == [kind |-> kind, arg |-> arg, ok |-> accepted,
                status |-> IF accepted THEN status ELSE -1, bal |-> bal]
  IN /\ log' = IF accepted THEN Append(base, entry)
               ELSE Append(Append(base, entry), entry)
     /\ chain_nonce' = IF accepted THEN chain_nonce + 1 ELSE chain_nonce
     /\ last_ok' = accepted
     /\ last_nonce' = n

\* ------------------------------------------------------------------ send_tx
\* One call of send_tx that reaches eth_sendRawTransaction: nonce n was read,
\* the node answered resp, and the receipt of an accepted transaction will
\* carry `status`.  `base` is the log it extends, `bal` the balance the
\* decision to send was taken on.
Submit(base, kind, arg, bal, n, resp, status) ==
  LET tx == send_tx_return(resp)
      accepted == ~IsError(tx)
  IN /\ log' = Append(base, [kind |-> kind, arg |-> arg, ok |-> accepted,
                             status |-> IF accepted THEN status ELSE -1,
                             bal |-> bal])
     /\ chain_nonce' = IF accepted THEN chain_nonce + 1 ELSE chain_nonce
     /\ last_ok' = accepted
     /\ last_nonce' = n

\* ------------------------------------------------------ the decision ladder
\* the amount the ladder compares with the thresholds: `balance`, never
\* `total = balance + pending`
DecisionFundsTotal(bal, pend) == bal + pend

DecisionFunds(bal, pend) == bal

\* for rig in reversed(RIGS): if rig["cost"] > 0 and balance >= rig["cost"]
RECURSIVE ScanRigs(_, _)
ScanRigs(i, funds) ==
  IF i = 0 THEN NoRig
  ELSE IF RIGS[i].cost > 0 /\ funds >= RIGS[i].cost THEN RIGS[i]
  ELSE ScanRigs(i - 1, funds)

RECURSIVE ScanRigsForward(_, _)
ScanRigsForward(i, funds) ==
  IF i > Len(RIGS) THEN NoRig
  ELSE IF RIGS[i].cost > 0 /\ funds >= RIGS[i].cost THEN RIGS[i]
  ELSE ScanRigsForward(i + 1, funds)

best_rig_unreversed(funds) == ScanRigsForward(1, funds)

best_rig(funds) == ScanRigs(Len(RIGS), funds)

Priority1Dear(taken, funds) ==
  IF ~taken /\ funds >= 2000 THEN best_rig(funds) ELSE NoRig

\* Priority 1: the rig to buy, NoRig when none is bought
Priority1(taken, funds) ==
  IF ~taken /\ funds >= 500 THEN best_rig(funds) ELSE NoRig

Priority2Cheap(taken, shield, funds) == ~taken /\ shield = 0 /\ funds >= 500

\* Priority 2: first shield
Priority2(taken, shield, funds) == ~taken /\ shield = 0 /\ funds >= 1000

Priority3Cheap(taken, facility, funds) == ~taken /\ facility = 1 /\ funds >= 500

\* Priority 3: facility upgrade
Priority3(taken, facility, funds) == ~taken /\ facility = 1 /\ funds >= 5000

Priority4Again(taken, shield, funds) == shield = 1 /\ funds >= 5000

\* Priority 4: shield upgrade
Priority4(taken, shield, funds) == ~taken /\ shield = 1 /\ funds >= 5000

Priority5Anywhere(taken, zone, funds, cyc) ==
  ~taken /\ funds >= 2000 /\ cyc > 20

Priority5NoWait(taken, zone, funds, cyc) ==
  ~taken /\ zone = 2 /\ funds >= 2000

\* Priority 5: migration
Priority5(taken, zone, funds, cyc) ==
  ~taken /\ zone = 2 /\ funds >= 2000 /\ cyc > 20

target_zone(shield) == IF shield >= 1 THEN 7 ELSE 0

\* cmd_report: affordable_rigs[-1] if affordable_rigs else None
best_affordable_rig(bal) ==
  LET affordable_rigs == SelectSeq(RIGS, LAMBDA r : r.cost > 0 /\ bal >= r.cost)
  IN IF affordable_rigs # <<>> THEN affordable_rigs[Len(affordable_rigs)] ELSE NoRig

\* The funds the ladder would compare in the runs that agree with this one on
\* everything but the pending rewards read in Step 2.
TwinFunds == {DecisionFunds(balance, p2) : p2 \in PendingValues}

\* ----------------------------------------------------------------- cmd_auto
AfterHeartbeatNoSkip(tx) == "read"

\* where the loop goes after the heartbeat's send_tx returned tx
AfterHeartbeat(tx) == IF IsError(tx) THEN "retry_sleep" ELSE "read"

\* Step 1: cycle += 1 and the heartbeat
Heartbeat ==
  /\ pc = "heartbeat"
  /\ cycle < MaxCycle
  /\ cycle' = cycle + 1
  /\ waited' = 0
  /\ pre' = Progression
  /\ \E nr \in NonceResponses :
       \E resp \in SendResponses(get_nonce(nr)) : \E status \in Statuses("Heartbeat") :
         /\ Submit(<<>>, "Heartbeat", 0, NoRead, get_nonce(nr), resp, status)
         /\ pc' = AfterHeartbeat(send_tx_return(resp))
  /\ UNCHANGED <<prog, locals, diverged>>
  /\ UNCHANGED rest

\* the failure branch: time.sleep(HEARTBEAT_INTERVAL); continue
RetrySleep ==
  /\ pc = "retry_sleep"
  /\ waited' = HEARTBEAT_INTERVAL
  /\ pc' = "heartbeat"
  /\ log' = <<>>
  /\ UNCHANGED <<cycle, prog, locals, ledger, pre, diverged>>
  /\ UNCHANGED rest

\* Step 2: balance = get_balance(); pending = get_pending_rewards()
CheckState ==
  /\ pc = "read"
  /\ \E rb \in ReadResponses(BalanceValues), rp \in ReadResponses(PendingValues) :
       /\ balance' = get_balance(rb)
       /\ pending' = get_pending_rewards(rp)
  /\ action_taken' = FALSE
  /\ pc' = "rule1"
  /\ UNCHANGED <<cycle, prog, waited, ledger, log, pre, diverged>>
  /\ UNCHANGED rest

\* "balance = get_balance()  # Refresh" after an action, then on to `next`;
\* an exception of the read leaves the loop with the action already recorded
Refresh(next) ==
  \/ \E rb \in ReadResponses(RefreshValues) :
       balance' = get_balance(rb) /\ pc' = next
  \/ balance' = balance /\ pc' = "crashed"

BuyRigThenEquip ==
  /\ pc = "rule1"
  /\ LET rig == Priority1(action_taken, DecisionFunds(balance, pending))
     IN IF rig = NoRig
        THEN pc' = "rule2" /\ UNCHANGED ledger /\ UNCHANGED log
        ELSE \E nr \in NonceResponses :
               \E resp \in SendResponses(get_nonce(nr)) : \E status \in Statuses("BuyRig") :
                 /\ Submit(log, "BuyRig", rig.tier, balance, get_nonce(nr), resp, status)
                 /\ pc' = "equip"
  /\ diverged' = (diverged \/ (\E f \in TwinFunds :
         Priority1(action_taken, f) # Priority1(action_taken, DecisionFunds(balance, pending))))
  /\ UNCHANGED <<cycle, prog, locals, waited, pre>>
  /\ UNCHANGED rest

\* Priority 1: buy the best affordable rig
BuyRig ==
  /\ pc = "rule1"
  /\ LET rig == Priority1(action_taken, DecisionFunds(balance, pending))
     IN IF rig = NoRig
        THEN pc' = "rule2" /\ UNCHANGED ledger /\ UNCHANGED log
        ELSE \E nr \in NonceResponses :
               \E resp \in SendResponses(get_nonce(nr)) : \E status \in Statuses("BuyRig") :
                 /\ Submit(log, "BuyRig", rig.tier, balance, get_nonce(nr), resp, status)
                 /\ pc' = IF IsError(send_tx_return(resp)) THEN "rule2" ELSE "equip"
  /\ diverged' = (diverged \/ (\E f \in TwinFunds :
         Priority1(action_taken, f) # Priority1(action_taken, DecisionFunds(balance, pending))))
  /\ UNCHANGED <<cycle, prog, locals, waited, pre>>
  /\ UNCHANGED rest

EquipRigKeepId ==
  /\ pc = "equip"
  /\ \E nr \in NonceResponses :
       \E resp \in SendResponses(get_nonce(nr)) : \E status \in Statuses("EquipRig") :
         /\ Submit(log, "EquipRig", next_rig_id, balance, get_nonce(nr), resp, status)
         /\ bought_rigs' = IF IsError(send_tx_return(resp)) THEN bought_rigs
                           ELSE Append(bought_rigs, next_rig_id)
         /\ next_rig_id' = IF IsError(send_tx_return(resp)) THEN next_rig_id
                           ELSE next_rig_id + 1
  /\ action_taken' = TRUE
  /\ Refresh("rule2")
  /\ UNCHANGED <<cycle, current_zone, facility_level, shield_tier, pending,
                 waited, pre, diverged>>
  /\ UNCHANGED rest

EquipRigAlways ==
  /\ pc = "equip"
  /\ \E nr \in NonceResponses :
       \E resp \in SendResponses(get_nonce(nr)) : \E status \in Statuses("EquipRig") :
         /\ Submit(log, "EquipRig", next_rig_id, balance, get_nonce(nr), resp, status)
         /\ bought_rigs' = Append(bought_rigs, next_rig_id)
  /\ next_rig_id' = next_rig_id + 1
  /\ action_taken' = TRUE
  /\ Refresh("rule2")
  /\ UNCHANGED <<cycle, current_zone, facility_level, shield_tier, pending,
                 waited, pre, diverged>>
  /\ UNCHANGED rest

\* "Try to equip it": the rig id is the guess next_rig_id
EquipRig ==
  /\ pc = "equip"
  /\ \E nr \in NonceResponses :
       \E resp \in SendResponses(get_nonce(nr)) : \E status \in Statuses("EquipRig") :
         /\ Submit(log, "EquipRig", next_rig_id, balance, get_nonce(nr), resp, status)
         /\ bought_rigs' = IF IsError(send_tx_return(resp)) THEN bought_rigs
                           ELSE Append(bought_rigs, next_rig_id)
  /\ next_rig_id' = next_rig_id + 1
  /\ action_taken' = TRUE
  /\ Refresh("rule2")
  /\ UNCHANGED <<cycle, current_zone, facility_level, shield_tier, pending,
                 waited, pre, diverged>>
  /\ UNCHANGED rest

\* Priority 2: buy the Magnetic Shield
BuyShield1 ==
  /\ pc = "rule2"
  /\ IF Priority2(action_taken, shield_tier, DecisionFunds(balance, pending))
     THEN \E nr \in NonceResponses :
            \E resp \in SendResponses(get_nonce(nr)) : \E status \in Statuses("BuyShield") :
              /\ Submit(log, "BuyShield", 1, balance, get_nonce(nr), resp, status)
              /\ IF IsError(send_tx_return(resp))
                 THEN pc' = "rule3" /\ UNCHANGED <<shield_tier, locals>>
                 ELSE /\ shield_tier' = 1
                      /\ action_taken' = TRUE
                      /\ Refresh("rule3")
                      /\ UNCHANGED pending
     ELSE pc' = "rule3" /\ UNCHANGED <<shield_tier, locals, ledger, log>>
  /\ diverged' = (diverged
       \/ (\E f \in TwinFunds :
         Priority2(action_taken, shield_tier, f) # Priority2(action_taken, shield_tier, DecisionFunds(balance, pending))))
  /\ UNCHANGED <<cycle, next_rig_id, bought_rigs, current_zone, facility_level,
                 waited, pre>>
  /\ UNCHANGED rest

\* Priority 3: upgrade the facility to the Faraday Cage
UpgradeFacility ==
  /\ pc = "rule3"
  /\ IF Priority3(action_taken, facility_level, DecisionFunds(balance, pending))
     THEN \E nr \in NonceResponses :
            \E resp \in SendResponses(get_nonce(nr)) : \E status \in Statuses("UpgradeFacility") :
              /\ Submit(log, "UpgradeFacility", 0, balance, get_nonce(nr), resp, status)
              /\ IF IsError(send_tx_return(resp))
                 THEN pc' = "rule4" /\ UNCHANGED <<facility_level, locals>>
                 ELSE /\ facility_level' = 2
                      /\ action_taken' = TRUE
                      /\ Refresh("rule4")
                      /\ UNCHANGED pending
     ELSE pc' = "rule4" /\ UNCHANGED <<facility_level, locals, ledger, log>>
  /\ diverged' = (diverged
       \/ (\E f \in TwinFunds :
         Priority3(action_taken, facility_level, f) # Priority3(action_taken, facility_level, DecisionFunds(balance, pending))))
  /\ UNCHANGED <<cycle, next_rig_id, bought_rigs, current_zone, shield_tier,
                 waited, pre>>
  /\ UNCHANGED rest

\* Priority 4: upgrade to the Electromagnetic Shield
BuyShield2 ==
  /\ pc = "rule4"
  /\ IF Priority4(action_taken, shield_tier, DecisionFunds(balance, pending))
     THEN \E nr \in NonceResponses :
            \E resp \in SendResponses(get_nonce(nr)) : \E status \in Statuses("BuyShield") :
              /\ Submit(log, "BuyShield", 2, balance, get_nonce(nr), resp, status)
              /\ IF IsError(send_tx_return(resp))
                 THEN pc' = "rule5" /\ UNCHANGED <<shield_tier, locals>>
                 ELSE /\ shield_tier' = 2
                      /\ action_taken' = TRUE
                      /\ Refresh("rule5")
                      /\ UNCHANGED pending
     ELSE pc' = "rule5" /\ UNCHANGED <<shield_tier, locals, ledger, log>>
  /\ diverged' = (diverged
       \/ (\E f \in TwinFunds :
         Priority4(action_taken, shield_tier, f) # Priority4(action_taken, shield_tier, DecisionFunds(balance, pending))))
  /\ UNCHANGED <<cycle, next_rig_id, bought_rigs, current_zone, facility_level,
                 waited, pre>>
  /\ UNCHANGED rest

\* Priority 5: migrate to a better zone
Migrate ==
  /\ pc = "rule5"
  /\ IF Priority5(action_taken, current_zone, DecisionFunds(balance, pending), cycle)
     THEN \E nr \in NonceResponses :
            \E resp \in SendResponses(get_nonce(nr)) : \E status \in Statuses("Migrate") :
              /\ Submit(log, "Migrate", target_zone(shield_tier), balance,
                        get_nonce(nr), resp, status)
              /\ IF IsError(send_tx_return(resp))
                 THEN UNCHANGED <<current_zone, action_taken>>
                 ELSE /\ current_zone' = target_zone(shield_tier)
                      /\ action_taken' = TRUE
     ELSE UNCHANGED <<current_zone, action_taken, ledger, log>>
  /\ pc' = "sleep"
  /\ diverged' = (diverged
       \/ (\E f \in TwinFunds :
         Priority5(action_taken, current_zone, f, cycle) # Priority5(action_taken, current_zone, DecisionFunds(balance, pending), cycle)))
  /\ UNCHANGED <<cycle, next_rig_id, bought_rigs, facility_level, shield_tier,
                 balance, pending, waited, pre>>
  /\ UNCHANGED rest

\* the end of the iteration: the messages, then time.sleep(HEARTBEAT_INTERVAL)
Sleep ==
  /\ pc = "sleep"
  /\ waited' = HEARTBEAT_INTERVAL
  /\ pc' = "heartbeat"
  /\ balance' = NoRead /\ pending' = NoRead /\ action_taken' = FALSE
  /\ log' = <<>>
  /\ UNCHANGED <<cycle, prog, ledger, pre, diverged>>
  /\ UNCHANGED rest

\* cmd_auto is inside an RPC: send_tx of the heartbeat, the two reads of
\* Step 2, or the send_tx of the rule it is at
InRpc ==
  LET funds == DecisionFunds(balance, pending)
  IN \/ pc \in {"heartbeat", "read", "equip"}
     \/ pc = "rule1" /\ Priority1(action_taken, funds) # NoRig
     \/ pc = "rule2" /\ Priority2(action_taken, shield_tier, funds)
     \/ pc = "rule3" /\ Priority3(action_taken, facility_level, funds)
     \/ pc = "rule4" /\ Priority4(action_taken, shield_tier, funds)
     \/ pc = "rule5" /\ Priority5(action_taken, current_zone, funds, cycle)

\* rpc_call catches URLError only: a non-JSON answer (json.loads), a timeout
\* while reading the answer, or a signing failure in send_tx is an exception
\* that nothing in cmd_auto catches, and the process ends with a traceback
Uncaught ==
  /\ InRpc
  /\ pc' = "crashed"
  /\ UNCHANGED <<cycle, prog, locals, waited, ledger, log, pre, diverged>>
  /\ UNCHANGED rest

Next ==
  \/ Heartbeat
  \/ RetrySleep
  \/ CheckState
  \/ BuyRig
  \/ EquipRig
  \/ BuyShield1
  \/ UpgradeFacility
  \/ BuyShield2
  \/ Migrate
  \/ Sleep
  \/ Uncaught

Spec == Init /\ [][Next]_vars

\* --------------------------------------------------- the one-shot commands
\* int(result.get("result", "0x0"), 16)
get_block_number(resp) == IF resp.has_result THEN resp.result.val ELSE 0

\* int(result.get("result", "0x0"), 16) / 1e18, kept in 0.01 MON
get_mon_balance(resp) == IF resp.has_result THEN resp.result.val ELSE 0

max(a, b) == IF a >= b THEN a ELSE b

get_warmup_status_signed(resp) ==
  LET block == get_block_number(resp)
      remaining == CLAIM_ELIGIBLE_BLOCK - block
  IN [current_block |-> block, blocks_remaining |-> remaining,
      can_claim |-> remaining = 0]

get_warmup_status_open(resp) ==
  LET block == get_block_number(resp)
      remaining == max(0, CLAIM_ELIGIBLE_BLOCK - block)
  IN [current_block |-> block, blocks_remaining |-> remaining,
      can_claim |-> TRUE]

\* resp is the node's answer to the eth_blockNumber call it makes
get_warmup_status(resp) ==
  LET block == get_block_number(resp)
      remaining == max(0, CLAIM_ELIGIBLE_BLOCK - block)
  IN [current_block |-> block, blocks_remaining |-> remaining,
      can_claim |-> remaining = 0]

\* The "result" of eth_getTransactionReceipt: null while the transaction is
\* not mined, else a receipt, which carries "status" on this chain.
NoReceipt == [present |-> FALSE, has_status |-> FALSE, status |-> 0]
Receipt(s) == [present |-> TRUE, has_status |-> TRUE, status |-> s]

\* Answers to eth_getTransactionReceipt for a transaction whose receipt will
\* carry `status`.
ReceiptResponses(status) ==
  {RpcError, RpcResult(NoReceipt), RpcResult(Receipt(status))}

check_tx_receipt(resp) ==
  LET receipt == IF resp.has_result THEN resp.result ELSE NoReceipt
  IN IF ~receipt.present THEN TRUE
     ELSE (IF receipt.has_status THEN receipt.status ELSE 1) # 0

\* cmd_claim: warmup = get_warmup_status() and the warmup gate
ClaimWarmup ==
  /\ cpc = "idle"
  /\ \E r \in BlockResponses :
       /\ answer' = r
       /\ warmup' = get_warmup_status(r)
       /\ value' = get_warmup_status(r).current_block
       /\ IF get_warmup_status(r).can_claim
          THEN cpc' = "claim_pending" /\ outcome' = "none"
          ELSE cpc' = "done" /\ outcome' = "warmup"
  /\ calls' = <<"eth_blockNumber">>
  /\ UNCHANGED <<loop, ledger, log, mon, stopped_at, report>>

\* cmd_claim: pending = get_pending_rewards() and "if pending < 1"
ClaimPending ==
  /\ cpc = "claim_pending"
  /\ \E r \in ReadResponses(PendingValues) :
       /\ answer' = r
       /\ value' = get_pending_rewards(r)
       /\ IF get_pending_rewards(r) < 1
          THEN cpc' = "done" /\ outcome' = "skip"
          ELSE cpc' = "claim_send" /\ outcome' = "none"
  /\ calls' = Append(calls, "eth_call")
  /\ UNCHANGED <<loop, ledger, log, mon, stopped_at, warmup, report>>

\* cmd_claim: tx = send_tx(MINING_ENGINE, build_claim_rewards())
ClaimSend ==
  /\ cpc = "claim_send"
  /\ \E nr \in NonceResponses :
       \E resp \in SendResponses(get_nonce(nr)) : \E status \in Statuses("ClaimRewards") :
         /\ Submit(log, "ClaimRewards", 0, value, get_nonce(nr), resp, status)
         /\ IF IsError(send_tx_return(resp))
            THEN cpc' = "done" /\ outcome' = "ERROR"
            ELSE cpc' = "claim_receipt" /\ outcome' = "none"
  /\ calls' = calls \o <<"eth_getTransactionCount", "eth_gasPrice",
                         "eth_sendRawTransaction">>
  /\ UNCHANGED <<loop, mon, stopped_at, warmup, answer, value, report>>

\* cmd_claim: "if check_tx_receipt(tx)": the new balance is read and printed,
\* else "Claim may have reverted"
ClaimReceipt ==
  /\ cpc = "claim_receipt"
  /\ \E r \in ReceiptResponses(log[Len(log)].status) :
       /\ answer' = r
       /\ IF check_tx_receipt(r)
          THEN /\ outcome' = "success"
               /\ calls' = calls \o <<"eth_getTransactionReceipt", "eth_call">>
          ELSE /\ outcome' = "reverted"
               /\ calls' = Append(calls, "eth_getTransactionReceipt")
  /\ cpc' = "done"
  /\ UNCHANGED <<loop, ledger, log, mon, stopped_at, warmup, value, report>>

\* the recommendations and the flags of cmd_report's report
cmd_report(bal, m, w) ==
  LET best == best_affordable_rig(bal)
      recommendations ==
        (IF best # NoRig
         THEN << [action |-> "buy-rig", tier |-> best.tier, priority |-> 1,
                  ask_user |-> best.cost >= 50000] >>
         ELSE << >>)
        \o (IF bal >= 1000
            THEN << [action |-> "buy-shield", tier |-> 1, priority |-> 2,
                     ask_user |-> FALSE] >>
            ELSE << >>)
        \o (IF bal >= 5000
            THEN << [action |-> "upgrade-facility", tier |-> NoRead,
                     priority |-> 3, ask_user |-> FALSE] >>
            ELSE << >>)
        \o (IF bal >= 5000
            THEN << [action |-> "buy-shield", tier |-> 2, priority |-> 4,
                     ask_user |-> FALSE] >>
            ELSE << >>)
      alert == [action |-> "alert-user", tier |-> NoRead, priority |-> 0,
                ask_user |-> TRUE]
  IN [balance |-> bal, mon_gas |-> m, gas_ok |-> m >= GAS_FLOOR,
      can_spend |-> w.can_claim /\ bal > 0,
      recommendations |-> IF m < GAS_FLOOR THEN <<alert>> \o recommendations
                          ELSE recommendations]

\* cmd_report: the four reads, get_warmup_status, and the report
Report ==
  /\ cpc = "idle"
  /\ \E rb \in ReadResponses(BalanceValues), rm \in MonResponses, rk \in BlockResponses :
       /\ answer' = rb
       /\ value' = get_balance(rb)
       /\ report' = cmd_report(get_balance(rb), get_mon_balance(rm),
                               get_warmup_status(rk))
       /\ warmup' = get_warmup_status(rk)
  /\ calls' = <<"eth_call", "eth_call", "eth_getBalance", "eth_blockNumber",
                "eth_blockNumber">>
  /\ outcome' = "report"
  /\ cpc' = "done"
  /\ UNCHANGED <<loop, ledger, log, mon, stopped_at>>

\* the command returns and the process ends; the next one starts afresh
Exit ==
  /\ cpc = "done"
  /\ cpc' = "idle"
  /\ calls' = <<>>
  /\ warmup' = NoWarmup
  /\ answer' = NoAnswer
  /\ value' = NoRead
  /\ outcome' = "none"
  /\ report' = NoReport
  /\ log' = <<>>
  /\ UNCHANGED <<loop, ledger, mon, stopped_at>>

CliNext ==
  \/ ClaimWarmup
  \/ ClaimPending
  \/ ClaimSend
  \/ ClaimReceipt
  \/ Report
  \/ Exit

\* the commands run one after another on an account with any gas balance
CliInit == LoopInit /\ mon \in MonValues

CliSpec == CliInit /\ [][CliNext]_vars

\* ------------------------------------------------------------------ claims
Entries == {log[i] : i \in DOMAIN log}

\* the cycle is over: cmd_auto is at its final sleep
CycleDone == pc = "sleep"

\* the ladder rule a broadcast belongs to, 0 for the heartbeat
RuleOf(e) ==
  CASE e.kind \in {"BuyRig", "EquipRig"} -> 1
    [] e.kind = "BuyShield" /\ e.arg = 1 -> 2
    [] e.kind = "UpgradeFacility" -> 3
    [] e.kind = "BuyShield" /\ e.arg = 2 -> 4
    [] e.kind = "Migrate" -> 5
    [] OTHER -> 0

\* the catalog cost of what a purchase buys
CostOf(e) ==
  CASE e.kind = "BuyRig" -> RIGS[e.arg + 1].cost
    [] e.kind = "BuyShield" -> SHIELDS[e.arg + 1].cost
    [] e.kind = "UpgradeFacility" -> FACILITIES[pre.facility + 1].upgrade_cost
    [] OTHER -> 0

\* the catalog rigs with 0 < cost <= bal, and the costliest of them
AffordableRigs(bal) ==
  {RIGS[i] : i \in {j \in DOMAIN RIGS : RIGS[j].cost > 0 /\ RIGS[j].cost <= bal}}

HighestAffordable(bal) ==
  LET S == AffordableRigs(bal)
  IN IF S = {} THEN NoRig
     ELSE CHOOSE r \in S : \A q \in S : q.cost <= r.cost

\* C1 (as claimed): at the end of a cycle in which a facility upgrade, a shield
\* purchase or a migration was accepted for broadcast and its receipt says
\* Reverted, the field it targets has the value it had before the attempt.
C1_RollbackOnRevert ==
  CycleDone =>
    \A e \in Entries :
      (e.ok /\ e.status = 0) =>
        /\ (e.kind = "UpgradeFacility" => facility_level = pre.facility)
        /\ (e.kind = "BuyShield" => shield_tier = pre.shield)
        /\ (e.kind = "Migrate" => current_zone = pre.zone)

\* C2 (as claimed): a transaction the process broadcasts never carries a nonce
\* that an earlier transaction of the process, accepted by the ledger, already
\* carries (the nonces StartNonce .. chain_nonce - 1), even when the pending
\* count the node reports has not caught up with the latest transaction.
C2_NoNonceReuse ==
  (last_nonce # NoRead /\ ~last_ok) =>
    ~(StartNonce <= last_nonce /\ last_nonce < chain_nonce)

\* C3: the first broadcast of every cycle is the heartbeat; the balance is
\* read and a policy transaction is sent only after a heartbeat whose
\* submission returned no error; after a failed heartbeat the cycle holds
\* that one broadcast and no read; and a cycle after the first begins only
\* when the loop has slept HEARTBEAT_INTERVAL with nothing of the previous
\* cycle left to send.
C3_HeartbeatFirst ==
  /\ \A i \in DOMAIN log : (log[i].kind = "Heartbeat") <=> (i = 1)
  /\ (balance # NoRead \/ Len(log) > 1) => (log # <<>> /\ log[1].ok)
  /\ (log # <<>> /\ ~log[1].ok) =>
       (Len(log) = 1 /\ balance = NoRead /\ pc \in {"retry_sleep", "crashed"})
  /\ (pc = "heartbeat" /\ cycle > 0) =>
       (waited = HEARTBEAT_INTERVAL /\ log = <<>>)

C3_Witness ==
  pc = "retry_sleep" /\ cycle > 1 /\ Len(log) = 1 /\ ~log[1].ok

\* C4 (as claimed): the broadcasts of one cycle belong to at most one rule of
\* the ladder.
C4_OneRulePerCycle ==
  Cardinality({RuleOf(e) : e \in Entries} \ {0}) <= 1

\* C5: every BuyRig, BuyShield and UpgradeFacility broadcast was decided on a
\* claimed balance, read in that cycle, of at least the catalog cost of the
\* rig tier, the shield tier, or the next facility level.
C5_Affordable ==
  \A e \in Entries :
    e.kind \in {"BuyRig", "BuyShield", "UpgradeFacility"} =>
      (e.bal # NoRead /\ CostOf(e) <= e.bal /\ CostOf(e) > 0)

C5_Witness ==
  \E e \in Entries : e.kind = "UpgradeFacility" /\ e.ok /\ e.bal = 5000

\* C6: no decision of the ladder comes out differently in a run that agrees
\* with this one on the claimed balance, on ProgressionState and on every
\* submission outcome and differs in the pending rewards; so the broadcasts
\* and the resulting ProgressionState of the two runs are the same.
C6_PendingNotSpendable == ~diverged

C6_Witness ==
  CycleDone /\ pending = 600 /\ balance = 499 /\ Len(log) = 1 /\ ~action_taken

\* C7: the rig cmd_auto buys and the rig cmd_report recommends are both the
\* costliest catalog rig with 0 < cost <= claimed balance, and none when no
\* such rig exists; whenever one exists the loop does send its BuyRig.
C7_BestRig ==
  /\ balance # NoRead =>
       LET best == HighestAffordable(balance)
       IN /\ Priority1(FALSE, balance) = best
          /\ best_affordable_rig(balance) = best
          /\ (pc \in {"rule2", "rule3", "rule4", "rule5", "sleep"}
                /\ ~action_taken /\ best # NoRig) =>
               \E e \in Entries : e.kind = "BuyRig" /\ e.bal = balance
  /\ \A e \in Entries :
       e.kind = "BuyRig" =>
         LET best == HighestAffordable(e.bal)
         IN best # NoRig /\ e.arg = best.tier

C7_Witness ==
  \E e \in Entries : e.kind = "BuyRig" /\ e.arg = 2 /\ e.bal = 5000

\* C8 (as claimed): in a cycle in which a rig with cost > 0 is affordable
\* from the claimed balance, no shield or facility transaction is sent.
C8_RigPriorityDominates ==
  \A e \in Entries :
    e.kind \in {"BuyShield", "UpgradeFacility"} => HighestAffordable(e.bal) = NoRig

C10_NoErrorEscapes == pc # "crashed"

\* the command has just made an eth_call read of a CHAOS amount
AfterAmountRead == cpc = "claim_send" \/ outcome \in {"skip", "report"}

\* C11 (as claimed): a zero-length result decodes to 0, and what a read hands
\* to its caller after a transport failure differs from what it hands over
\* after any answer that decodes to an amount, zero included.
C11_UnavailableDistinct ==
  /\ decode_uint256(HexEmpty) = 0
  /\ (AfterAmountRead /\ answer.has_error) =>
       \A v \in BalanceValues \cup PendingValues :
         value # decode_uint256(eth_call(RpcResult(Hex(v))))

\* C12 (as claimed): cmd_claim takes its success branch only when a receipt
\* with a non-zero status was read, and its reverted branch only when a
\* receipt with status 0 was read.
C12_UnknownIsNotSuccess ==
  /\ outcome = "success" =>
       (answer.has_result /\ answer.result.present
          /\ answer.result.has_status /\ answer.result.status # 0)
  /\ outcome = "reverted" =>
       (answer.has_result /\ answer.result.present
          /\ answer.result.has_status /\ answer.result.status = 0)

\* cmd_auto on an account with any gas balance
GasSpec == CliInit /\ [][Next]_vars

\* C13 (as claimed): a report made on a gas balance below the floor carries
\* the alert first, with the lowest priority number, and cmd_report sends
\* nothing; and while the gas balance is below the floor cmd_auto attempts no
\* transaction, heartbeat or policy.
C13_NoTxOnLowGas ==
  /\ (outcome = "report" /\ report.mon_gas < GAS_FLOOR) =>
       /\ report.recommendations[1].action = "alert-user"
       /\ \A i \in DOMAIN report.recommendations :
            i > 1 => report.recommendations[i].priority
                       > report.recommendations[1].priority
       /\ log = <<>>
  /\ mon < GAS_FLOOR => \A e \in Entries : e.kind = "ClaimRewards"

\* cmd_claim has been through its warmup gate with a height below the end of
\* the warmup (0 when the read failed)
ClaimInWarmup ==
  /\ warmup # NoWarmup
  /\ outcome # "report"
  /\ warmup.current_block < CLAIM_ELIGIBLE_BLOCK

\* C14 (as claimed): a claim attempted at a block height below the eligible
\* block is rejected before any network call is made, and no claim
\* transaction is sent.
C14_RejectedBeforeAnyCall ==
  ClaimInWarmup =>
    /\ outcome = "warmup"
    /\ calls = <<>>
    /\ \A e \in Entries : e.kind # "ClaimRewards"

\* C14 (amended): a claim attempted at a block height below the eligible
\* block, the height 0 of a failed read included, is rejected with "warmup"
\* after the one eth_blockNumber read that get_warmup_status makes; no other
\* network call is made and no transaction is sent.
C14_RejectedAfterHeightRead ==
  /\ ClaimInWarmup =>
       /\ cpc = "done" /\ outcome = "warmup"
       /\ calls = <<"eth_blockNumber">>
       /\ log = <<>>
  /\ (warmup # NoWarmup /\ outcome # "report" /\ answer.has_error
        /\ calls = <<"eth_blockNumber">>) =>
       (warmup.current_block = 0 /\ outcome = "warmup")
  /\ \A e \in Entries :
       e.kind = "ClaimRewards" =>
         (warmup.can_claim /\ warmup.current_block >= CLAIM_ELIGIBLE_BLOCK)

C14_Witness ==
  /\ cpc = "done" /\ outcome = "warmup"
  /\ answer.has_error /\ warmup.current_block = 0
  /\ calls = <<"eth_blockNumber">>

\* C15: the remaining warmup is max(0, eligible block - height) and never
\* negative; it does not grow with the height; can_claim is true exactly when
\* the height has reached the eligible block, and stays true at every larger
\* height.
C15_WarmupMonotone ==
  warmup # NoWarmup =>
    /\ warmup.blocks_remaining >= 0
    /\ warmup.blocks_remaining =
         (IF warmup.current_block >= CLAIM_ELIGIBLE_BLOCK THEN 0
          ELSE CLAIM_ELIGIBLE_BLOCK - warmup.current_block)
    /\ warmup.can_claim <=> (warmup.current_block >= CLAIM_ELIGIBLE_BLOCK)
    /\ \A r \in BlockResponses :
         LET later == get_warmup_status(r)
         IN later.current_block >= warmup.current_block =>
              /\ later.blocks_remaining <= warmup.blocks_remaining
              /\ warmup.can_claim => later.can_claim

C15_Witness ==
  /\ cpc = "claim_pending"
  /\ warmup.current_block = CLAIM_ELIGIBLE_BLOCK + 1
  /\ warmup.can_claim /\ warmup.blocks_remaining = 0

\* ------------------------------------------------------------------ Ctrl+C
\* "Press Ctrl+C to stop": cmd_auto and main install no handler, so SIGINT
\* raises KeyboardInterrupt wherever the loop is, and the process ends.
NoTx == [kind |-> "none", arg |-> 0]

\* the transaction the send_tx at pc is about to broadcast
Due ==
  LET funds == DecisionFunds(balance, pending)
  IN CASE pc = "rule1" /\ Priority1(action_taken, funds) # NoRig ->
            [kind |-> "BuyRig", arg |-> Priority1(action_taken, funds).tier]
       [] pc = "equip" -> [kind |-> "EquipRig", arg |-> next_rig_id]
       [] pc = "rule2" /\ Priority2(action_taken, shield_tier, funds) ->
            [kind |-> "BuyShield", arg |-> 1]
       [] pc = "rule3" /\ Priority3(action_taken, facility_level, funds) ->
            [kind |-> "UpgradeFacility", arg |-> 0]
       [] pc = "rule4" /\ Priority4(action_taken, shield_tier, funds) ->
            [kind |-> "BuyShield", arg |-> 2]
       [] pc = "rule5" /\ Priority5(action_taken, current_zone, funds, cycle) ->
            [kind |-> "Migrate", arg |-> target_zone(shield_tier)]
       [] OTHER -> NoTx

\* KeyboardInterrupt between two statements, inside a time.sleep, or inside
\* an RPC the node has not acted on
Interrupt ==
  /\ pc \notin {"crashed", "stopped"}
  /\ pc' = "stopped"
  /\ stopped_at' = pc
  /\ UNCHANGED <<cycle, prog, locals, waited, ledger, log, pre, diverged, mon, cli>>

\* KeyboardInterrupt while send_tx waits for the answer to a broadcast the
\* node accepts, or between its return and the assignment that records it
InterruptInSend ==
  /\ Due # NoTx
  /\ \E nr \in NonceResponses :
       \E resp \in SendResponses(get_nonce(nr)) : \E status \in Statuses(Due.kind) :
         /\ ~IsError(send_tx_return(resp))
         /\ Submit(log, Due.kind, Due.arg, balance, get_nonce(nr), resp, status)
  /\ pc' = "stopped"
  /\ stopped_at' = pc
  /\ UNCHANGED <<cycle, prog, locals, waited, pre, diverged, mon, cli>>

CancelNext ==
  \/ Next
  \/ Interrupt
  \/ InterruptInSend

\* cmd_auto with a user who may press Ctrl+C
CancelSpec == Init /\ [][CancelNext]_vars

\* C16 (as claimed): a cancellation ends the loop only at a cycle boundary
\* (the top of the loop or the sleep that ends a cycle), and never between
\* the acceptance of a transaction and the ProgressionState update that
\* records it.
C16_StopsAtCycleBoundary ==
  pc = "stopped" =>
    /\ stopped_at \in {"heartbeat", "retry_sleep", "sleep"}
    /\ \A e \in Entries :
         e.ok =>
           /\ e.kind = "BuyShield" => shield_tier = e.arg
           /\ e.kind = "UpgradeFacility" => facility_level = pre.facility + 1
           /\ e.kind = "Migrate" => current_zone = e.arg
           /\ e.kind = "EquipRig" => next_rig_id > e.arg

\* ------------------------------------------------------- the loop's updates
\* one step of cmd_auto judged by what it adds to the log
C17_Step ==
  LET sent == Len(log') = Len(log) + 1
      last == log'[Len(log')]
  IN /\ (sent /\ ~last.ok /\ last.kind \in {"BuyShield", "UpgradeFacility", "Migrate"}) =>
          UNCHANGED <<shield_tier, facility_level, current_zone>>
     /\ shield_tier' # shield_tier =>
          (sent /\ last.ok /\ last.kind = "BuyShield" /\ shield_tier' = last.arg)
     /\ facility_level' # facility_level =>
          (sent /\ last.ok /\ last.kind = "UpgradeFacility")
     /\ current_zone' # current_zone =>
          (sent /\ last.ok /\ last.kind = "Migrate" /\ current_zone' = last.arg)
     /\ bought_rigs' # bought_rigs =>
          /\ sent /\ Len(log') >= 2
          /\ last.ok /\ last.kind = "EquipRig"
          /\ log'[Len(log') - 1].ok /\ log'[Len(log') - 1].kind = "BuyRig"
          /\ bought_rigs' = Append(bought_rigs, last.arg)

\* C17: a shield, facility or migration submission that returns an error
\* leaves shield_tier, facility_level and current_zone as they were; each of
\* the three changes only in the step whose submission of that kind returned
\* no error; and bought_rigs gains an id only in the step whose EquipRig
\* returned no error, following a BuyRig of the same cycle that returned none.
C17_MutatedOnlyOnSuccess == [][C17_Step]_vars

C17_Witness ==
  /\ \E e \in Entries : e.kind = "BuyShield" /\ ~e.ok
  /\ shield_tier = 0
  /\ Len(bought_rigs) = 1
  /\ pc = "rule3"

\* C18: a Migrate is sent only in a cycle numbered above 20, on a claimed
\* balance of at least 2000, from zone 2; its target is zone 7 when the
\* shield tier is at least 1 and zone 0 otherwise.
C18_MigrationGate ==
  \A e \in Entries :
    e.kind = "Migrate" =>
      /\ cycle > 20
      /\ e.bal # NoRead /\ e.bal >= 2000
      /\ pre.zone = 2
      /\ e.arg = (IF shield_tier >= 1 THEN 7 ELSE 0)
      /\ e.arg \in {0, 7}

C18_Witness ==
  /\ \E e \in Entries : e.kind = "Migrate" /\ e.arg = 7 /\ e.ok /\ e.bal = 2000
  /\ current_zone = 7
  /\ shield_tier = 1

\* C19: an EquipRig is sent only directly after a BuyRig of the same cycle
\* that returned no error; a BuyRig that returned no error is directly
\* followed by the EquipRig (at the latest broadcast, the loop is at the
\* EquipRig's send_tx, or an exception inside it has ended the process); a
\* BuyRig that returned an error is followed by no EquipRig.
C19_EquipFollowsBuy ==
  \A i \in DOMAIN log :
    /\ log[i].kind = "EquipRig" =>
         (i > 1 /\ log[i - 1].kind = "BuyRig" /\ log[i - 1].ok)
    /\ (log[i].kind = "BuyRig" /\ log[i].ok) =>
         IF i < Len(log) THEN log[i + 1].kind = "EquipRig"
         ELSE pc \in {"equip", "crashed"}
    /\ (log[i].kind = "BuyRig" /\ ~log[i].ok) =>
         /\ pc # "equip"
         /\ \A j \in DOMAIN log : j > i => log[j].kind # "EquipRig"

C19_Witness ==
  /\ Len(log) = 3
  /\ log[2].kind = "BuyRig" /\ log[2].ok
  /\ log[3].kind = "EquipRig" /\ ~log[3].ok
  /\ pc = "rule2"

\* C20: in the rig catalog, listed by tier, cost and hashrate grow strictly
\* from each tier to the next; so the balance a BuyRig was decided on covers
\* every paid tier up to the one bought.
C20_CatalogIncreasing ==
  /\ \A i \in DOMAIN RIGS : RIGS[i].tier = i - 1
  /\ \A i \in 1 .. (Len(RIGS) - 1) :
       /\ RIGS[i].cost < RIGS[i + 1].cost
       /\ RIGS[i].hashrate < RIGS[i + 1].hashrate
  /\ \A e \in Entries :
       e.kind = "BuyRig" =>
         \A j \in DOMAIN RIGS :
           (RIGS[j].tier <= e.arg /\ RIGS[j].cost > 0) => RIGS[j].cost <= e.bal

C20_Witness ==
  \E e \in Entries : e.kind = "BuyRig" /\ e.arg = 3 /\ e.bal = 10000 /\ e.ok

\* ---------------------------------------------------------- cycles and kinds
\* the action kind of a broadcast: the two shield purchases are two kinds
KindOf(e) == IF e.kind = "BuyShield" THEN <<e.kind, e.arg>> ELSE <<e.kind, 0>>

C21_Step ==
  /\ Len(log') <= Len(log) + 1
  /\ \A i, j \in DOMAIN log' : i # j => KindOf(log'[i]) # KindOf(log'[j])
  /\ Len(log') > 1 =>
       /\ log'[1].kind = "Heartbeat" /\ log'[1].ok
       /\ \A i \in 2 .. Len(log') : log'[i].bal # NoRead
  /\ (log = <<>> /\ log' # <<>>) => cycle' = cycle + 1

LadderKinds == {"BuyShield", "UpgradeFacility", "Migrate"}

\* C22: a shield, facility or migration transaction is sent only after a
\* BuyRig of the same cycle that returned an error; in a cycle whose BuyRig
\* returned no error, and in a cycle without a BuyRig (no paid rig within the
\* claimed balance), none is sent.
C22_LadderOnlyAfterFailedRig ==
  /\ \A i \in DOMAIN log :
       log[i].kind \in LadderKinds =>
         \E j \in 1 .. (i - 1) : log[j].kind = "BuyRig" /\ ~log[j].ok
  /\ (\E e \in Entries : e.kind = "BuyRig" /\ e.ok) =>
       \A e \in Entries : e.kind \notin LadderKinds
  /\ (pc \in {"rule2", "rule3", "rule4", "rule5", "sleep"} /\ ~action_taken
        /\ HighestAffordable(balance) = NoRig) =>
       Len(log) = 1

C22_Witness ==
  /\ Len(log) = 4
  /\ log[2].kind = "BuyRig" /\ ~log[2].ok
  /\ log[3].kind = "BuyShield" /\ ~log[3].ok
  /\ log[4].kind = "UpgradeFacility" /\ log[4].ok

C23_Step ==
  /\ shield_tier' \in {0, 1, 2}
  /\ facility_level' \in {1, 2}
  /\ facility_level' < FACILITIES[Len(FACILITIES)].level
  /\ shield_tier' # shield_tier => shield_tier' = shield_tier + 1
  /\ facility_level' # facility_level => facility_level' = facility_level + 1
  /\ shield_tier' - pre'.shield \in {0, 1}
  /\ facility_level' - pre'.facility \in {0, 1}

\* C23: shield_tier stays in {0,1,2} and facility_level in {1,2}, below the
\* catalog's level 3; a step that changes either raises it by one, so neither
\* decreases and each of 0->1, 1->2 (shield) and 1->2 (facility) happens at
\* most once in a run; and within one cycle each rises by at most one.
C23_TiersMonotone == [][C23_Step]_vars

C23_Witness ==
  /\ shield_tier = 2 /\ facility_level = 2
  /\ pre.shield = 1 /\ pre.facility = 2
  /\ pc = "sleep"

C24_Step ==
  /\ current_zone' \in {2, 0, 7}
  /\ current_zone' # current_zone => current_zone = 2
  /\ current_zone # 2 =>
       (Len(log') = Len(log) + 1 => log'[Len(log')].kind # "Migrate")
  /\ \A e \in {log'[i] : i \in DOMAIN log'} : e.kind = "Migrate" => pre'.zone = 2

\* C24: current_zone is always 2, 0 or 7; it changes only from 2; and once it
\* is not 2 no Migrate is sent again, whatever the shield tier becomes, so
\* the zone moves at most once in a run and never from 0 to 7.
C24_MigratesOnce == [][C24_Step]_vars

C24_Witness ==
  /\ pc = "sleep" /\ cycle > 21
  /\ current_zone = 0 /\ pre.zone = 0
  /\ balance >= 2000 /\ ~action_taken
  /\ \A e \in Entries : e.kind # "Migrate"

\* C25: next_rig_id starts at 33; past the rig step of a cycle it is one
\* above its value at the start of the cycle when that cycle's BuyRig
\* returned no error, whatever the EquipRig returned, and unchanged
\* otherwise; bought_rigs is strictly increasing with every id at least 33
\* and below next_rig_id, and holds no more ids than next_rig_id has moved.
C25_RigIds ==
  /\ next_rig_id >= FirstRigId
  /\ pre.next >= FirstRigId
  /\ next_rig_id - pre.next \in {0, 1}
  /\ pc \in {"rule2", "rule3", "rule4", "rule5", "sleep"} =>
       next_rig_id = pre.next
         + (IF \E e \in Entries : e.kind = "BuyRig" /\ e.ok THEN 1 ELSE 0)
  /\ pc \in {"retry_sleep", "read", "rule1", "equip"} => next_rig_id = pre.next
  /\ \A i \in DOMAIN bought_rigs :
       /\ bought_rigs[i] >= FirstRigId
       /\ bought_rigs[i] < next_rig_id
       /\ i > 1 => bought_rigs[i - 1] < bought_rigs[i]
  /\ Len(bought_rigs) <= next_rig_id - FirstRigId

C25_Witness ==
  /\ pc = "sleep"
  /\ Len(log) = 3 /\ log[2].kind = "BuyRig" /\ log[2].ok
  /\ log[3].kind = "EquipRig" /\ ~log[3].ok
  /\ pre.next = 34 /\ next_rig_id = 35
  /\ bought_rigs = <<33>>

\* the answers of a balance read that failed at transport level or came
\* back empty
FailedReads == {RpcError, RpcResult(HexEmpty)}

\* C26: a claimed-balance read that fails or returns an empty result hands
\* the ladder the balance 0, on which no rule fires whatever the pending
\* rewards and ProgressionState are; and a cycle decided on the balance 0
\* holds the heartbeat only and leaves ProgressionState as it was.
C26_FailSafeOnNoBalance ==
  /\ \A r \in FailedReads : \A p \in PendingValues :
       LET funds == DecisionFunds(get_balance(r), p)
       IN /\ get_balance(r) = 0
          /\ Priority1(FALSE, funds) = NoRig
          /\ ~Priority2(FALSE, shield_tier, funds)
          /\ ~Priority3(FALSE, facility_level, funds)
          /\ ~Priority4(FALSE, shield_tier, funds)
          /\ ~Priority5(FALSE, current_zone, funds, cycle)
  /\ (pc \in {"rule1", "rule2", "rule3", "rule4", "rule5", "sleep"}
        /\ balance = 0 /\ ~action_taken) =>
       /\ Len(log) = 1 /\ log[1].kind = "Heartbeat" /\ log[1].ok
       /\ Progression = pre

C26_Witness ==
  /\ pc = "sleep" /\ cycle > 20
  /\ balance = 0 /\ pending = 600
  /\ Len(log) = 1
  /\ bought_rigs # <<>> /\ shield_tier = 1
  /\ Progression = pre

====
